---- MODULE Spec2Model ----
(***************************************************************************)
(* A model of src/src/lib/pinecone.ts: the vector-store integration layer  *)
(* (client handle, initializeIndex, storeResponseEmbedding,                *)
(* findSimilarResponses, cosineSimilarity, getSimilarity,                  *)
(* generateFormConnections).                                               *)
(*                                                                         *)
(* Representation choices                                                  *)
(*  - A JavaScript string used as name/type/id is a sequence of one-       *)
(*    character strings.                                                   *)
(*  - The embedded text is run-length encoded (a sequence of runs          *)
(*    [ch, n]) so that texts longer than 1000 characters are enumerable.   *)
(*  - A number[] is [length, head]: `length` is the array's length and     *)
(*    `head` its leading components; every component past the head is 0.  *)
(*    The zero components add exactly 0 to every sum of cosineSimilarity,  *)
(*    so 1536-dimensional vectors are enumerable.                          *)
(*  - A double is a binary floating-point number with a SigBits-bit        *)
(*    significand, rounded to nearest, ties to even (IEEE 754 with a       *)
(*    shorter significand than the 53 bits of a double). A float is        *)
(*    kept as the integer  value * 2^FracBits.  The exponent range is      *)
(*    finite: a result of magnitude 2^(MaxExp+1) or more is Infinity, and  *)
(*    Infinity and NaN are two integer codes above every finite value.     *)
(*  - An optional value is <<>> (undefined) or <<x>>.                      *)
(***************************************************************************)
EXTENDS Integers, Sequences, FiniteSets, TLC

\* ------------------------------------------------------------- constants
RESPONSES_INDEX == "responses"

EXPECTED_EMBEDDING_DIMENSION == 1536

\* text.substring(0, 1000)
ORIGINAL_TEXT_LIMIT == 1000

\* topK of generateFormConnections' query
TOP_K == 100

\* --------------------------------------------------------------- bounds
\* bits of the significand of the model's floating-point numbers
SigBits == 8

\* most records the default namespace holds
MaxRecords == 2

\* most records namespace "ns1" holds
MaxPoints == 4

\* the longest vectors cosineSimilarity is called with on its own
MaxLen == 2

\* -------------------------------------------------------------- helpers
Min(a, b) == IF a <= b THEN a ELSE b

Max(a, b) == IF a >= b THEN a ELSE b

Abs(x) == IF x < 0 THEN -x ELSE x

Pow2(k) == 2 ^ k

\* ------------------------------------------------------ JavaScript strings
UpperCase == {"A","B","C","D","E","F","G","H","I","J","K","L","M",
              "N","O","P","Q","R","S","T","U","V","W","X","Y","Z"}

LowerCase == {"a","b","c","d","e","f","g","h","i","j","k","l","m",
              "n","o","p","q","r","s","t","u","v","w","x","y","z"}

Digits == {"0","1","2","3","4","5","6","7","8","9"}

\* the characters \s matches that the model uses
WhiteSpace == {" ", "\t"}

LowerOf ==
  [c \in UpperCase |->
     CASE c = "A" -> "a" [] c = "B" -> "b" [] c = "C" -> "c" [] c = "D" -> "d"
       [] c = "E" -> "e" [] c = "F" -> "f" [] c = "G" -> "g" [] c = "H" -> "h"
       [] c = "I" -> "i" [] c = "J" -> "j" [] c = "K" -> "k" [] c = "L" -> "l"
       [] c = "M" -> "m" [] c = "N" -> "n" [] c = "O" -> "o" [] c = "P" -> "p"
       [] c = "Q" -> "q" [] c = "R" -> "r" [] c = "S" -> "s" [] c = "T" -> "t"
       [] c = "U" -> "u" [] c = "V" -> "v" [] c = "W" -> "w" [] c = "X" -> "x"
       [] c = "Y" -> "y" [] c = "Z" -> "z"]

\* String.prototype.toLowerCase
RECURSIVE toLowerCase(_)
toLowerCase(s) ==
  IF s = <<>> THEN <<>>
  ELSE <<IF Head(s) \in UpperCase THEN LowerOf[Head(s)] ELSE Head(s)>>
       \o toLowerCase(Tail(s))

\* the class without its hyphen, [^a-zA-Z0-9\s]: hyphens are stripped too
KeptByIdClass_NoHyphen(c) ==
  c \in UpperCase \cup LowerCase \cup Digits \cup WhiteSpace

\* the characters the class [^a-zA-Z0-9\s-] does NOT match
KeptByIdClass(c) ==
  c \in UpperCase \cup LowerCase \cup Digits \cup WhiteSpace \cup {"-"}

\* .replace(/[^a-zA-Z0-9\s-]/g, '')
RECURSIVE StripOtherChars(_)
StripOtherChars(s) ==
  IF s = <<>> THEN <<>>
  ELSE (IF KeptByIdClass(Head(s)) THEN <<Head(s)>> ELSE <<>>)
       \o StripOtherChars(Tail(s))

\* .replace(/\s+/g, '-'): every maximal run of white space becomes one hyphen
RECURSIVE WhiteSpaceRunsToHyphen(_)
WhiteSpaceRunsToHyphen(s) ==
  IF s = <<>> THEN <<>>
  ELSE IF Head(s) \in WhiteSpace
       THEN IF Len(s) > 1 /\ s[2] \in WhiteSpace
            THEN WhiteSpaceRunsToHyphen(Tail(s))
            ELSE <<"-">> \o WhiteSpaceRunsToHyphen(Tail(s))
       ELSE <<Head(s)>> \o WhiteSpaceRunsToHyphen(Tail(s))

\* idSuffix of storeResponseEmbedding
IdSuffix(name) == toLowerCase(WhiteSpaceRunsToHyphen(StripOtherChars(name)))

\* the type sanitized like the name
IdPrefix_Sanitized(type) == IdSuffix(type)

\* the type as it enters the id: the template literal interpolates it as is
IdPrefix(type) == type

\* generatedId of storeResponseEmbedding: `${metadata.type}-${idSuffix}`
GeneratedId(type, name) == IdPrefix(type) \o <<"-">> \o IdSuffix(name)

\* ------------------------------------------------- run-length encoded text
RECURSIVE TextLength(_)
TextLength(t) == IF t = <<>> THEN 0 ELSE Head(t).n + TextLength(Tail(t))

\* the character at position i (1-based) of a text, i <= TextLength(t)
RECURSIVE CharAt(_, _)
CharAt(t, i) == IF i <= Head(t).n THEN Head(t).ch ELSE CharAt(Tail(t), i - Head(t).n)

\* text.trim() === "": nothing but white space
RECURSIVE TrimIsEmpty(_)
TrimIsEmpty(t) ==
  IF t = <<>> THEN TRUE ELSE Head(t).ch \in WhiteSpace /\ TrimIsEmpty(Tail(t))

\* the check without trim(): only the empty string is blank
IsBlank_NoTrim(t) == TextLength(t) = 0

\* !text || text.trim() === ""
IsBlank(t) == TextLength(t) = 0 \/ TrimIsEmpty(t)

\* text.substring(0, k)
RECURSIVE Substring0(_, _)
Substring0(t, k) ==
  IF t = <<>> \/ k <= 0 THEN <<>>
  ELSE IF Head(t).n <= k
       THEN <<Head(t)>> \o Substring0(Tail(t), k - Head(t).n)
       ELSE <<[ch |-> Head(t).ch, n |-> k]>>

\* ---------------------------------------------------- floating point
\* A finite float is the integer value * 2^FracBits; below 2^-6 the floats
\* are the multiples of 2^-FracBits (gradual underflow), so every finite
\* float lies on this grid.
FracBits == SigBits + 6

One == Pow2(FracBits)

\* the largest exponent of a finite float: the finite floats are below
\* 2^(MaxExp + 1) in magnitude, and a result that rounds to that or more is
\* Infinity (IEEE 754 with a shorter exponent range than that of a double)
MaxExp == SigBits

\* Infinity and NaN, kept as integers beyond every finite float; -Infinity
\* is the negative of Infinity
Infinity == Pow2(MaxExp + 1) * One

NaN == Infinity + 1

IsNaN(x) == x = NaN

IsFinite(x) == -Infinity < x /\ x < Infinity

\* x with the sign of a product or quotient of operands of signs neg1, neg2
Signed(x, neg1, neg2) == IF neg1 = neg2 THEN x ELSE -x

\* the integer nearest to n/d, ties to the even one (n >= 0, d > 0)
RoundHalfEven(n, d) ==
  LET q == n \div d
      r == n % d
  IN  IF 2 * r < d THEN q
      ELSE IF 2 * r > d THEN q + 1
      ELSE IF q % 2 = 0 THEN q ELSE q + 1

\* 2^e <= n/d, for n, d > 0
AtLeastPow2(n, d, e) ==
  IF e >= 0 THEN d <= n \div Pow2(e)
  ELSE (d + Pow2(-e) - 1) \div Pow2(-e) <= n

\* floor(log2(n/d)) by bisection, 2^lo <= n/d < 2^hi
RECURSIVE FloorLog2In(_, _, _, _)
FloorLog2In(n, d, lo, hi) ==
  IF hi - lo <= 1 THEN lo
  ELSE LET mid == (lo + hi) \div 2
       IN  IF AtLeastPow2(n, d, mid) THEN FloorLog2In(n, d, mid, hi)
           ELSE FloorLog2In(n, d, lo, mid)

\* floor(log2(n/d)) for n, d > 0 below 2^30
FloorLog2(n, d) == FloorLog2In(n, d, -30, 30)

\* the float nearest to (n/d) * 2^k (n >= 0, d > 0): SigBits significant
\* bits, fewer below the normal range, Infinity above the finite range
RoundToFloat(n, d, k) ==
  IF n = 0 THEN 0
  ELSE LET e == FloorLog2(n, d)
           s == Min(SigBits - 1 - e, FracBits + k)
           m == IF s >= 0 THEN RoundHalfEven(n * Pow2(s), d)
                          ELSE RoundHalfEven(n, d * Pow2(-s))
       IN  IF e + k > MaxExp \/ (e + k = MaxExp /\ m = Pow2(SigBits)) THEN Infinity
           ELSE m * Pow2(FracBits + k - s)

\* Every float of magnitude 1 or more is a multiple of 2^Coarse on the grid.
Coarse == FracBits - SigBits + 1

\* a finite float x > 0 as m * 2^(t - FracBits), with m small enough to multiply
Scaled(x) ==
  IF x % Pow2(Coarse) # 0 THEN [m |-> x, t |-> 0]
  ELSE IF x < Pow2(SigBits + Coarse) THEN [m |-> x \div Pow2(Coarse), t |-> Coarse]
  ELSE LET t == FloorLog2(x, 1) - SigBits + 1
       IN  [m |-> x \div Pow2(t), t |-> t]

\* floor(sqrt(x)) by bisection, lo*lo <= x < hi*hi
RECURSIVE ISqrtIn(_, _, _)
ISqrtIn(x, lo, hi) ==
  IF hi - lo <= 1 THEN lo
  ELSE LET mid == (lo + hi) \div 2
       IN  IF mid * mid <= x THEN ISqrtIn(x, mid, hi) ELSE ISqrtIn(x, lo, mid)

\* the float nearest to sqrt(n), for an integer n > 0
SqrtOfInt(n) ==
  LET e == FloorLog2(n, 1) \div 2          \* 2^e <= sqrt(n) < 2^(e+1)
      s == SigBits - 1 - e                   \* significand = sqrt(n) * 2^s
      x == n * Pow2(2 * s)
      r == ISqrtIn(x, 0, Pow2(SigBits + 1))
      m == IF x - r * r > r THEN r + 1 ELSE r \* x > (r + 1/2)^2
  IN  m * Pow2(FracBits - s)

\* SqrtOfInt of the integers that are floats as they are, worked out once
SqrtTable == [n \in 1..Pow2(SigBits) |-> SqrtOfInt(n)]

\* Math.sqrt(x) of a float x that is not negative; the finite ones the
\* model takes a root of are sums of squares of integers, integers themselves
MathSqrt(x) ==
  IF IsNaN(x) THEN NaN
  ELSE IF x = Infinity THEN Infinity
  ELSE IF x = 0 THEN 0
  ELSE IF x <= Pow2(SigBits) * One THEN SqrtTable[x \div One]
  ELSE SqrtOfInt(x \div One)

\* the integer n is a float as it is: at most SigBits bits long
ExactInt(n) == Abs(n) <= Pow2(SigBits)

\* x * y of two floats
FloatMul(x, y) ==
  IF IsNaN(x) \/ IsNaN(y) THEN NaN
  ELSE IF ~IsFinite(x) \/ ~IsFinite(y)
  THEN IF x = 0 \/ y = 0 THEN NaN ELSE Signed(Infinity, x < 0, y < 0)
  ELSE IF x = 0 \/ y = 0 THEN 0
  ELSE IF x % One = 0 /\ y % One = 0 /\ ExactInt((x \div One) * (y \div One))
  THEN (x \div One) * y
  ELSE LET sx == Scaled(Abs(x))
           sy == Scaled(Abs(y))
       IN  Signed(RoundToFloat(sx.m * sy.m, 1, sx.t + sy.t - 2 * FracBits),
                  x < 0, y < 0)

\* x / y of two floats, y # 0
FloatDiv(x, y) ==
  IF IsNaN(x) \/ IsNaN(y) THEN NaN
  ELSE IF ~IsFinite(x)
  THEN IF ~IsFinite(y) THEN NaN ELSE Signed(Infinity, x < 0, y < 0)
  ELSE IF ~IsFinite(y) \/ x = 0 THEN 0
  ELSE LET sx == Scaled(Abs(x))
           sy == Scaled(Abs(y))
       IN  Signed(RoundToFloat(sx.m, sy.m, sx.t - sy.t), x < 0, y < 0)

\* x + y of two floats
FloatAdd(x, y) ==
  IF IsNaN(x) \/ IsNaN(y) THEN NaN
  ELSE IF ~IsFinite(x) THEN (IF y = -x THEN NaN ELSE x)
  ELSE IF ~IsFinite(y) THEN y
  ELSE IF x % One = 0 /\ y % One = 0 /\ ExactInt((x + y) \div One) THEN x + y
  ELSE Signed(RoundToFloat(Abs(x + y), One, 0), x + y < 0, FALSE)

\* an integer as a float: the components of the model's vectors are
\* integers that are floats as they are
FloatOfInt(n) == n * One

\* ------------------------------------------------------------- vectors
\* component i (1-based) of a vector
At(v, i) == IF i <= Len(v.head) THEN v.head[i] ELSE 0

\* the sum the loop has accumulated for a[i] * b[i] after n components,
\* starting from 0
RECURSIVE DotTo(_, _, _)
DotTo(a, b, n) ==
  IF n = 0 THEN 0
  ELSE FloatAdd(DotTo(a, b, n - 1), FloatMul(FloatOfInt(At(a, n)), FloatOfInt(At(b, n))))

\* the check of a longer first operand only: a.length > b.length
CosineThrows_LongerFirst(a, b) == a.length > b.length

\* a.length !== b.length: cosineSimilarity throws
CosineThrows(a, b) == a.length # b.length

\* denominator === 0 ? 0 : dotProduct / denominator
Quotient(dotProduct, denominator) ==
  IF denominator = 0 THEN 0 ELSE FloatDiv(dotProduct, denominator)

\* the denominator taken from the first operand's magnitude alone
CosineValue_FirstNorm(a, b) ==
  LET n == Min(a.length, Max(Len(a.head), Len(b.head)))
  IN  Quotient(DotTo(a, b, n),
               FloatMul(MathSqrt(DotTo(a, a, n)), MathSqrt(DotTo(a, a, n))))

\* the number cosineSimilarity returns for vectors of one length; the loop
\* runs over the heads, the components past them adding 0 to each sum
CosineValue(a, b) ==
  LET n == Min(a.length, Max(Len(a.head), Len(b.head)))
  IN  Quotient(DotTo(a, b, n),
               FloatMul(MathSqrt(DotTo(a, a, n)), MathSqrt(DotTo(b, b, n))))

\* cosineSimilarity(a, b): [threw |-> TRUE] on a length mismatch, otherwise
\* [threw |-> FALSE, value |-> the float returned]
cosineSimilarity(a, b) ==
  IF CosineThrows(a, b) THEN [threw |-> TRUE, value |-> 0]
  ELSE [threw |-> FALSE, value |-> CosineValue(a, b)]

\* ------------------------------------------------------ optional values
\* a value that may be undefined: <<>> is undefined, <<x>> is x
Undefined == <<>>

Some(x) == <<x>>

IsDefined(o) == o # <<>>

ValueOf(o) == o[1]

\* --------------------------------------------------------------- inputs
Str_respondent == <<"r","e","s","p","o","n","d","e","n","t">>

Str_JaneDoe == <<"J","a","n","e"," ","D","o","e","!">>

Str_janedoe == <<"j","a","n","e"," ","d","o","e">>

Str_aB9 == <<"a","-","B","_","9">>

\* InputStorableMetadata: type, name and the other keys of `extra`
Metadata(type, name, extra) ==
  [k \in {"type", "name"} \cup DOMAIN extra |->
     IF k = "type" THEN type ELSE IF k = "name" THEN name ELSE extra[k]]

NoExtra == <<>>

FormIdExtra == [k \in {"form_id"} |-> "f1"]

Text(ch, n) == <<[ch |-> ch, n |-> n]>>

\* the calls of storeResponseEmbedding: texts that are empty, white space
\* only, short, of exactly the limit and longer than the limit; names and
\* types with upper case, white space (also runs of it), punctuation,
\* hyphens and digits, and empty ones; with and without another metadata key
StoreCalls ==
  { [text |-> <<>>,
     metadata |-> Metadata(<<"t">>, <<"n">>, NoExtra)],
    [text |-> Text(" ", 2) \o Text("\t", 1),
     metadata |-> Metadata(Str_respondent, Str_JaneDoe, NoExtra)],
    [text |-> Text("a", 3),
     metadata |-> Metadata(Str_respondent, Str_JaneDoe, NoExtra)],
    [text |-> Text("a", ORIGINAL_TEXT_LIMIT - 1) \o Text("b", 2),
     metadata |-> Metadata(Str_respondent, Str_janedoe, FormIdExtra)],
    [text |-> Text("a", ORIGINAL_TEXT_LIMIT),
     metadata |-> Metadata(Str_respondent, Str_aB9, NoExtra)],
    [text |-> Text("b", ORIGINAL_TEXT_LIMIT + 1),
     metadata |-> Metadata(<<"Q"," ","A","!">>, <<"A"," ","\t","b","-">>, FormIdExtra)],
    [text |-> Text("a", 3),
     metadata |-> Metadata(Str_respondent, <<>>, NoExtra)],
    [text |-> Text("a", 3),
     metadata |-> Metadata(<<>>, <<"!"," ","x">>, NoExtra)] }

Vector(len, head) == [length |-> len, head |-> head]

\* what createEmbedding resolves to: vectors of the expected dimension and
\* vectors of another one
EmbeddingsReturned ==
  { Vector(EXPECTED_EMBEDDING_DIMENSION, <<1, 0>>),
    Vector(EXPECTED_EMBEDDING_DIMENSION, <<1, 1>>),
    Vector(512, <<1, 0>>) }

\* ---------------------------------------------------------------- state
VARIABLES
  apiKey,          \* process.env.PINECONE_API_KEY is set
  pineconeClient,  \* _pineconeClient: Undefined (null) or Some(k), the k-th client constructed
  clientsCreated,  \* how many times `new Pinecone(...)` ran
  indexes,         \* the names of the indexes the service holds
  listed,          \* `indexes` of initializeIndex, once listIndexes resolved
  store,           \* the index: namespace -> (record id -> record)
  pc,              \* where the operation in progress is waiting
  op,              \* the operation called last
  args,            \* its arguments
  embedding,       \* what createEmbedding resolved to, once it has
  recordToUpsert,  \* recordToUpsert of storeResponseEmbedding, once built
  fetchResult,     \* fetchResult.records of getSimilarity, once fetched
  points,          \* points of generateFormConnections, once queried
  calls,           \* calls made by the operation so far, by callee
  storeBefore,     \* the store when the operation was called
  storeReply,      \* how the store call awaited last ended: "none", "resolved", "rejected"
  outcome,         \* "pending", "returned" or "threw"
  error,           \* which throw ended the operation
  retMatches,      \* the value findSimilarResponses returned
  retSimilarity,   \* the value getSimilarity returned
  retConnections   \* the value generateFormConnections returned

clientVars == <<apiKey, pineconeClient, clientsCreated>>

\* the indexes and what initializeIndex knows of them
indexVars == <<indexes, listed>>

localVars == <<embedding, recordToUpsert, fetchResult, points>>

retVars == <<retMatches, retSimilarity, retConnections>>

vars == <<apiKey, pineconeClient, clientsCreated, indexes, listed, store, pc, op, args,
          embedding, recordToUpsert, fetchResult, points, calls, storeBefore,
          storeReply, outcome, error, retMatches, retSimilarity, retConnections>>

DefaultNs == ""

FormNs == "ns1"

Namespaces == {DefaultNs, FormNs}

NoCalls == [createEmbedding |-> 0, upsert |-> 0, query |-> 0, fetch |-> 0,
            cosineSimilarity |-> 0, listIndexes |-> 0, createIndex |-> 0]

NoArgs == [text |-> <<>>, metadata |-> <<>>, queryText |-> <<>>, limit |-> 0,
           filter |-> Undefined, pointId1 |-> <<>>, pointId2 |-> <<>>,
           formId |-> "", a |-> Vector(0, <<>>), b |-> Vector(0, <<>>)]

EmptyStore == [ns \in Namespaces |-> <<>>]

\* no operation has been called yet
InitCall ==
  /\ pc = "idle"
  /\ op = "none"
  /\ args = NoArgs
  /\ embedding = Undefined
  /\ recordToUpsert = Undefined
  /\ fetchResult = <<>>
  /\ points = <<>>
  /\ calls = NoCalls
  /\ storeBefore = store
  /\ storeReply = "none"
  /\ outcome = "returned"
  /\ error = "none"
  /\ retMatches = <<>>
  /\ retSimilarity = 0
  /\ retConnections = <<>>

\* the module is loaded: no client yet, the index exists and is empty
Init ==
  /\ apiKey \in BOOLEAN
  /\ pineconeClient = Undefined
  /\ clientsCreated = 0
  /\ indexes = {RESPONSES_INDEX}
  /\ listed = Undefined
  /\ store = EmptyStore
  /\ InitCall

\* ------------------------------------------------------ getPineconeClient
\* a getPineconeClient that never finds a client cached
ClientCached_Never == FALSE

\* !_pineconeClient is false: a client is cached
ClientCached == IsDefined(pineconeClient)

\* getPineconeClient throws: no client yet and no API key
GetClientThrows == ~ClientCached /\ ~apiKey

\* getPineconeClient runs `new Pinecone(...)`: no client yet and an API key
ConstructsClient == ~ClientCached /\ apiKey

\* _pineconeClient after getPineconeClient
ClientAfterGet == IF ConstructsClient THEN Some(clientsCreated + 1) ELSE pineconeClient

\* the count of constructions after getPineconeClient
CreatedAfterGet == IF ConstructsClient THEN clientsCreated + 1 ELSE clientsCreated

\* the environment sets or unsets PINECONE_API_KEY between two operations
\* (the variable is read by getPineconeClient only, as an operation begins)
SetApiKey(key) ==
  /\ pc \in {"idle", "done"}
  /\ key # apiKey
  /\ apiKey' = key
  /\ UNCHANGED <<pineconeClient, clientsCreated, indexVars, store, pc, op, args,
                 localVars, calls, storeBefore, storeReply, outcome, error, retVars>>

\* ------------------------------------------------------- the store (SDK)
\* an upsert that leaves a record already stored under the id as it is
Upsert_KeepExisting(st, ns, rec) ==
  [st EXCEPT ![ns] = IF rec.id \in DOMAIN @ THEN @
                     ELSE [i \in DOMAIN @ \cup {rec.id} |-> IF i = rec.id THEN rec ELSE @[i]]]

\* index.upsert([rec]) into namespace ns: the record replaces the one of its id
Upsert(st, ns, rec) ==
  [st EXCEPT ![ns] = [i \in DOMAIN @ \cup {rec.id} |-> IF i = rec.id THEN rec ELSE @[i]]]

\* the sequences of distinct elements of S of length at most k
RECURSIVE DistinctSeqs(_, _)
DistinctSeqs(S, k) ==
  IF k = 0 THEN {<<>>}
  ELSE {<<>>} \cup UNION { { <<x>> \o t : t \in DistinctSeqs(S \ {x}, k - 1) } : x \in S }

\* what a query of namespace ns may resolve to as `matches`: records of that
\* namespace only, each at most once, at most topK, in the order the store
\* ranks them. Which records pass the filter is the store's decision.
QueryMatches(st, ns, topK) ==
  { [i \in DOMAIN s |-> st[ns][s[i]]] : s \in DistinctSeqs(DOMAIN st[ns], topK) }

\* a match as returned under includeValues: false
WithoutValues(rec) == [rec EXCEPT !.values = Some(Vector(0, <<>>))]

\* index.fetch(ids).records: the records of the default namespace among ids
Fetch(st, ids) == [i \in ids \cap DOMAIN st[DefaultNs] |-> st[DefaultNs][i]]

\* a call begins: the per-call bookkeeping starts afresh
BeginCall(name, a) ==
  /\ pc \in {"idle", "done"}
  /\ op' = name
  /\ args' = a
  /\ storeBefore' = store
  /\ storeReply' = "none"
  /\ embedding' = Undefined
  /\ recordToUpsert' = Undefined
  /\ fetchResult' = <<>>
  /\ points' = <<>>
  /\ retMatches' = <<>>
  /\ retSimilarity' = 0
  /\ retConnections' = <<>>

Throw(e) == pc' = "done" /\ outcome' = "threw" /\ error' = e

Return == pc' = "done" /\ outcome' = "returned" /\ error' = "none"

Await(label) == pc' = label /\ outcome' = "pending" /\ error' = "none"

Called(callee) == calls' = [calls EXCEPT ![callee] = @ + 1]

\* ------------------------------------------------ storeResponseEmbedding
\* the check left out: every embedding passes
DimensionMatches_Unchecked(e) == TRUE

\* embedding.length !== EXPECTED_EMBEDDING_DIMENSION is false
DimensionMatches(e) == e.length = EXPECTED_EMBEDDING_DIMENSION

\* fullMetadata with the whole text as originalText
FullMetadata_WholeText(text, metadata) ==
  [k \in DOMAIN metadata \cup {"type", "name", "originalText"} |->
     IF k = "originalText" THEN text ELSE metadata[k]]

\* fullMetadata: the input's keys, type and name set again, and originalText
FullMetadata(text, metadata) ==
  [k \in DOMAIN metadata \cup {"type", "name", "originalText"} |->
     IF k = "type" THEN metadata["type"]
     ELSE IF k = "name" THEN metadata["name"]
     ELSE IF k = "originalText" THEN Substring0(text, ORIGINAL_TEXT_LIMIT)
     ELSE metadata[k]]

\* recordToUpsert
RecordToUpsert(text, metadata, e) ==
  [id       |-> GeneratedId(metadata["type"], metadata["name"]),
   values   |-> Some(e),
   metadata |-> Some(FullMetadata(text, metadata))]

\* the call, up to its first await: the empty-text return, getIndex, and
\* the call of createEmbedding
StoreResponseEmbedding(text, metadata) ==
  /\ BeginCall("storeResponseEmbedding",
               [NoArgs EXCEPT !.text = text, !.metadata = metadata])
  /\ IF IsBlank(text)
     THEN /\ Return
          /\ calls' = NoCalls
          /\ UNCHANGED <<clientVars, indexVars, store>>
     ELSE IF GetClientThrows
     THEN /\ Throw("config")
          /\ calls' = NoCalls
          /\ UNCHANGED <<clientVars, indexVars, store>>
     ELSE /\ pineconeClient' = ClientAfterGet
          /\ clientsCreated' = CreatedAfterGet
          /\ calls' = [NoCalls EXCEPT !.createEmbedding = 1]
          /\ Await("sre_createEmbedding")
          /\ UNCHANGED <<apiKey, indexVars, store>>

\* createEmbedding rejects: logged and re-thrown
SreEmbeddingRejected ==
  /\ pc = "sre_createEmbedding"
  /\ Throw("embedding")
  /\ UNCHANGED <<clientVars, indexVars, store, op, args, localVars, calls, storeBefore, storeReply,
                 retVars>>

\* createEmbedding resolves to e: the dimension check, then the record is
\* built and index.upsert is called
SreEmbeddingResolved(e) ==
  /\ pc = "sre_createEmbedding"
  /\ embedding' = Some(e)
  /\ IF ~DimensionMatches(e)
     THEN /\ Throw("dimension")
          /\ UNCHANGED <<recordToUpsert, calls>>
     ELSE /\ recordToUpsert' = Some(RecordToUpsert(args.text, args.metadata, e))
          /\ Called("upsert")
          /\ Await("sre_upsert")
  /\ UNCHANGED <<clientVars, indexVars, store, op, args, fetchResult, points, storeBefore,
                 storeReply, retVars>>

\* the default namespace has room for the record (the model's bound)
HasRoom(rec) ==
  rec.id \in DOMAIN store[DefaultNs] \/ Cardinality(DOMAIN store[DefaultNs]) < MaxRecords

\* index.upsert resolves: the record is in the default namespace
SreUpsertResolved ==
  /\ pc = "sre_upsert"
  /\ HasRoom(ValueOf(recordToUpsert))
  /\ store' = Upsert(store, DefaultNs, ValueOf(recordToUpsert))
  /\ storeReply' = "resolved"
  /\ Return
  /\ UNCHANGED <<clientVars, indexVars, op, args, localVars, calls, storeBefore, retVars>>

\* the catch around index.upsert: logged and re-thrown
SreUpsertCatch == Throw("store")

\* index.upsert rejects
SreUpsertRejected ==
  /\ pc = "sre_upsert"
  /\ storeReply' = "rejected"
  /\ SreUpsertCatch
  /\ UNCHANGED <<clientVars, indexVars, store, op, args, localVars, calls, storeBefore, retVars>>

\* -------------------------------------------------- findSimilarResponses
\* the calls of findSimilarResponses: query texts that are empty, white
\* space only and not; the default limit and another; with and without filter
FindCalls ==
  { [queryText |-> <<>>, limit |-> 5, filter |-> Undefined],
    [queryText |-> Text(" ", 1), limit |-> 5, filter |-> Undefined],
    [queryText |-> Text("q", 2), limit |-> 5, filter |-> Undefined],
    [queryText |-> Text("q", 2), limit |-> 1, filter |-> Some(FormIdExtra)] }

FindSimilarResponses(queryText, limit, filter) ==
  /\ BeginCall("findSimilarResponses",
               [NoArgs EXCEPT !.queryText = queryText, !.limit = limit, !.filter = filter])
  /\ IF IsBlank(queryText)
     THEN /\ Return
          /\ calls' = NoCalls
          /\ UNCHANGED <<clientVars, indexVars, store>>
     ELSE IF GetClientThrows
     THEN /\ Throw("config")
          /\ calls' = NoCalls
          /\ UNCHANGED <<clientVars, indexVars, store>>
     ELSE /\ pineconeClient' = ClientAfterGet
          /\ clientsCreated' = CreatedAfterGet
          /\ calls' = [NoCalls EXCEPT !.createEmbedding = 1]
          /\ Await("fsr_createEmbedding")
          /\ UNCHANGED <<apiKey, indexVars, store>>

FsrEmbeddingRejected ==
  /\ pc = "fsr_createEmbedding"
  /\ Throw("embedding")
  /\ UNCHANGED <<clientVars, indexVars, store, op, args, localVars, calls, storeBefore, storeReply,
                 retVars>>

\* createEmbedding resolves to e: the dimension check, then index.query
FsrEmbeddingResolved(e) ==
  /\ pc = "fsr_createEmbedding"
  /\ embedding' = Some(e)
  /\ IF ~DimensionMatches(e)
     THEN /\ Throw("dimension")
          /\ UNCHANGED calls
     ELSE /\ Called("query")
          /\ Await("fsr_query")
  /\ UNCHANGED <<clientVars, indexVars, store, op, args, recordToUpsert, fetchResult, points,
                 storeBefore, storeReply, retVars>>

\* index.query resolves to `matches` (undefined or a list): results.matches || []
FsrQueryResolved(matches) ==
  /\ pc = "fsr_query"
  /\ storeReply' = "resolved"
  /\ retMatches' = IF IsDefined(matches) THEN ValueOf(matches) ELSE <<>>
  /\ Return
  /\ UNCHANGED <<clientVars, indexVars, store, op, args, localVars, calls, storeBefore,
                 retSimilarity, retConnections>>

\* the catch around index.query: logged and re-thrown
FsrQueryCatch == Throw("store")

FsrQueryRejected ==
  /\ pc = "fsr_query"
  /\ storeReply' = "rejected"
  /\ FsrQueryCatch
  /\ UNCHANGED <<clientVars, indexVars, store, op, args, localVars, calls, storeBefore, retVars>>

\* what index.query may resolve to for findSimilarResponses
FsrQueryResponses ==
  {Undefined} \cup
  { Some([i \in DOMAIN m |-> WithoutValues(m[i])]) :
      m \in QueryMatches(store, DefaultNs, args.limit) }

\* ---------------------------------------------------------- getSimilarity
\* fetchResult.records?.[id]?.values
FetchedVector(records, id) ==
  IF id \in DOMAIN records THEN records[id].values ELSE Undefined

\* the check of the first vector only
VectorMissing_FirstOnly(vector1, vector2) == ~IsDefined(vector1)

\* !vector1 || !vector2
VectorMissing(vector1, vector2) == ~IsDefined(vector1) \/ ~IsDefined(vector2)

\* the ids callers ask about: two that storeResponseEmbedding generates and
\* one that it does not
PointIds == { GeneratedId(Str_respondent, Str_JaneDoe),
              GeneratedId(Str_respondent, Str_aB9),
              <<"n","o","n","e">> }

\* cosineSimilarity(vector1, vector2) as called by getSimilarity: reading
\* .length of undefined throws (a TypeError), as a length mismatch does
CosineOfFetched(vector1, vector2) ==
  IF ~IsDefined(vector1) \/ ~IsDefined(vector2)
  THEN [threw |-> TRUE, value |-> 0]
  ELSE cosineSimilarity(ValueOf(vector1), ValueOf(vector2))

GetSimilarity(pointId1, pointId2) ==
  /\ BeginCall("getSimilarity",
               [NoArgs EXCEPT !.pointId1 = pointId1, !.pointId2 = pointId2])
  /\ IF GetClientThrows
     THEN /\ Throw("config")
          /\ calls' = NoCalls
          /\ UNCHANGED <<clientVars, indexVars, store>>
     ELSE /\ pineconeClient' = ClientAfterGet
          /\ clientsCreated' = CreatedAfterGet
          /\ calls' = [NoCalls EXCEPT !.fetch = 1]
          /\ Await("gs_fetch")
          /\ UNCHANGED <<apiKey, indexVars, store>>

\* index.fetch resolves to `records`: both vectors are looked up, and
\* cosineSimilarity is called when both are there
GsFetchResolved(records) ==
  /\ pc = "gs_fetch"
  /\ storeReply' = "resolved"
  /\ fetchResult' = records
  /\ LET vector1 == FetchedVector(records, args.pointId1)
         vector2 == FetchedVector(records, args.pointId2)
     IN  IF VectorMissing(vector1, vector2)
         THEN /\ Throw("notfound")
              /\ UNCHANGED <<calls, retSimilarity>>
         ELSE LET r == CosineOfFetched(vector1, vector2)
              IN  /\ Called("cosineSimilarity")
                  /\ IF r.threw
                     THEN Throw("invalidarg") /\ UNCHANGED retSimilarity
                     ELSE Return /\ retSimilarity' = r.value
  /\ UNCHANGED <<clientVars, indexVars, store, op, args, embedding, recordToUpsert, points,
                 storeBefore, retMatches, retConnections>>

\* the catch of getSimilarity: logged and re-thrown
GsCatch == Throw("store")

GsFetchRejected ==
  /\ pc = "gs_fetch"
  /\ storeReply' = "rejected"
  /\ GsCatch
  /\ UNCHANGED <<clientVars, indexVars, store, op, args, localVars, calls, storeBefore, retVars>>

\* ------------------------------------------------ generateFormConnections
\* !p1.metadata || !p2.metadata || !p1.values || !p2.values is false
PairComplete(p1, p2) ==
  /\ IsDefined(p1.metadata) /\ IsDefined(p2.metadata)
  /\ IsDefined(p1.values) /\ IsDefined(p2.values)

\* metadata.key: the value under the key, or undefined
Property(metadata, key) ==
  IF key \in DOMAIN metadata THEN metadata[key] ELSE "undefined"

\* the Connection pushed for the pair p1, p2
Connection(p1, p2) ==
  [response1Id     |-> Property(ValueOf(p1.metadata), "response_id"),
   response2Id     |-> Property(ValueOf(p2.metadata), "response_id"),
   response1Name   |-> Property(ValueOf(p1.metadata), "respondent_name"),
   response2Name   |-> Property(ValueOf(p2.metadata), "respondent_name"),
   similarityScore |-> cosineSimilarity(ValueOf(p1.values), ValueOf(p2.values)).value]

\* the loops with `break` where the code has `continue`: an incomplete pair
\* ends the inner loop
RECURSIVE ConnectionsFrom_Break(_, _, _)
ConnectionsFrom_Break(pts, i, j) ==
  IF i > Len(pts) THEN <<>>
  ELSE IF j > Len(pts) THEN ConnectionsFrom_Break(pts, i + 1, i + 2)
  ELSE IF PairComplete(pts[i], pts[j])
       THEN <<Connection(pts[i], pts[j])>> \o ConnectionsFrom_Break(pts, i, j + 1)
       ELSE ConnectionsFrom_Break(pts, i + 1, i + 2)

\* the two loops, from the pair (i, j) on: the connections pushed, in order
RECURSIVE ConnectionsFrom(_, _, _)
ConnectionsFrom(pts, i, j) ==
  IF i > Len(pts) THEN <<>>
  ELSE IF j > Len(pts) THEN ConnectionsFrom(pts, i + 1, i + 2)
  ELSE (IF PairComplete(pts[i], pts[j]) THEN <<Connection(pts[i], pts[j])>> ELSE <<>>)
       \o ConnectionsFrom(pts, i, j + 1)

\* the number of cosineSimilarity calls the loops make
CompletePairs(pts) ==
  { <<i, j>> \in (DOMAIN pts) \X (DOMAIN pts) : i < j /\ PairComplete(pts[i], pts[j]) }

\* cosineSimilarity throws for some pair of the loops
SomePairThrows(pts) ==
  \E q \in CompletePairs(pts) :
     CosineThrows(ValueOf(pts[q[1]].values), ValueOf(pts[q[2]].values))

\* the comparator with its operands swapped: a.similarityScore - b.similarityScore
Precedes_Ascending(x, y) == x.similarityScore <= y.similarityScore

\* x goes before y under the comparator (a, b) => b.similarityScore - a.similarityScore
\* only if the comparator does not put y first
Precedes(x, y) == x.similarityScore >= y.similarityScore

\* element j of cs comes before element k in the sorted array: the
\* comparator orders them, or it ties them and j is the earlier one (the
\* sort of Array.prototype.sort is stable)
SortsBefore(cs, j, k) ==
  IF Precedes(cs[j], cs[k]) /\ Precedes(cs[k], cs[j])
  THEN j < k
  ELSE Precedes(cs[j], cs[k])

\* connections.sort(comparator): each element at the position after the
\* elements that come before it
SortConnections(cs) ==
  LET n       == Len(cs)
      rank    == [k \in 1..n |-> 1 + Cardinality({ j \in 1..n : SortsBefore(cs, j, k) })]
  IN  [r \in 1..n |-> cs[CHOOSE k \in 1..n : rank[k] = r]]

FormIds == {"f1", "f2"}

GenerateFormConnections(formId) ==
  /\ BeginCall("generateFormConnections", [NoArgs EXCEPT !.formId = formId])
  /\ IF GetClientThrows
     THEN /\ Throw("config")
          /\ calls' = NoCalls
          /\ UNCHANGED <<clientVars, indexVars, store>>
     ELSE /\ pineconeClient' = ClientAfterGet
          /\ clientsCreated' = CreatedAfterGet
          /\ calls' = [NoCalls EXCEPT !.query = 1]
          /\ Await("gfc_query")
          /\ UNCHANGED <<apiKey, indexVars, store>>

\* index.query resolves to `matches` (undefined or a list): the pairs are
\* compared and the connections returned sorted
GfcQueryResolved(matches) ==
  /\ pc = "gfc_query"
  /\ storeReply' = "resolved"
  /\ LET pts == IF IsDefined(matches) THEN ValueOf(matches) ELSE <<>>
     IN  /\ points' = pts
         /\ IF SomePairThrows(pts)
            THEN /\ Throw("invalidarg")
                 /\ UNCHANGED <<calls, retConnections>>
            ELSE /\ calls' = [calls EXCEPT
                                !.cosineSimilarity = Cardinality(CompletePairs(pts))]
                 /\ \E connections \in {ConnectionsFrom(pts, 1, 2)} :
                      retConnections' = SortConnections(connections)
                 /\ Return
  /\ UNCHANGED <<clientVars, indexVars, store, op, args, embedding, recordToUpsert, fetchResult,
                 storeBefore, retMatches, retSimilarity>>

\* a catch that logs and returns an empty list instead of re-throwing
GfcCatch_ReturnsEmpty == Return

\* the catch of generateFormConnections: logged and re-thrown
GfcCatch == Throw("store")

GfcQueryRejected ==
  /\ pc = "gfc_query"
  /\ storeReply' = "rejected"
  /\ GfcCatch
  /\ UNCHANGED <<clientVars, indexVars, store, op, args, localVars, calls, storeBefore, retVars>>

\* a query that leaves the namespace out and so reads the default one
GfcQueryResponses_DefaultNamespace ==
  {Undefined} \cup { Some(m) : m \in QueryMatches(store, DefaultNs, TOP_K) }

\* what index.query may resolve to for generateFormConnections
GfcQueryResponses ==
  {Undefined} \cup { Some(m) : m \in QueryMatches(store, FormNs, TOP_K) }

\* --------------------------------------------------------- initializeIndex
\* an initializeIndex that takes no index for existing
IndexExists_Never(indexList) == FALSE

\* indexExists: indexes?.some(index => index.name === RESPONSES_INDEX)
IndexExists(indexList) ==
  IsDefined(indexList) /\ RESPONSES_INDEX \in ValueOf(indexList)

\* the call, up to its first await: getPineconeClient and client.listIndexes
InitializeIndex ==
  /\ BeginCall("initializeIndex", NoArgs)
  /\ listed' = Undefined
  /\ IF GetClientThrows
     THEN /\ Throw("config")
          /\ calls' = NoCalls
          /\ UNCHANGED <<clientVars, indexes, store>>
     ELSE /\ pineconeClient' = ClientAfterGet
          /\ clientsCreated' = CreatedAfterGet
          /\ calls' = [NoCalls EXCEPT !.listIndexes = 1]
          /\ Await("ii_listIndexes")
          /\ UNCHANGED <<apiKey, indexes, store>>

\* client.listIndexes resolves to { indexes: indexList } (undefined or the
\* names): createIndex is called when "responses" is not among them
IiListResolved(indexList) ==
  /\ pc = "ii_listIndexes"
  /\ storeReply' = "resolved"
  /\ listed' = Some(indexList)
  /\ IF ~IndexExists(indexList)
     THEN Called("createIndex") /\ Await("ii_createIndex")
     ELSE Return /\ UNCHANGED calls
  /\ UNCHANGED <<clientVars, indexes, store, op, args, localVars, storeBefore, retVars>>

\* the catch of initializeIndex: logged and re-thrown
IiCatch == Throw("store")

\* client.listIndexes rejects
IiListRejected ==
  /\ pc = "ii_listIndexes"
  /\ storeReply' = "rejected"
  /\ IiCatch
  /\ UNCHANGED <<clientVars, indexVars, store, op, args, localVars, calls, storeBefore,
                 retVars>>

\* client.createIndex resolves: the service holds the index; it creates no
\* index under a name it holds already
IiCreateResolved ==
  /\ pc = "ii_createIndex"
  /\ RESPONSES_INDEX \notin indexes
  /\ indexes' = indexes \cup {RESPONSES_INDEX}
  /\ storeReply' = "resolved"
  /\ Return
  /\ UNCHANGED <<clientVars, listed, store, op, args, localVars, calls, storeBefore,
                 retVars>>

\* client.createIndex rejects
IiCreateRejected ==
  /\ pc = "ii_createIndex"
  /\ storeReply' = "rejected"
  /\ IiCatch
  /\ UNCHANGED <<clientVars, indexVars, store, op, args, localVars, calls, storeBefore,
                 retVars>>

\* what client.listIndexes may resolve to: the names of the indexes the
\* service holds, or no list at all when it holds none
IiListResponses ==
  {Some(indexes)} \cup (IF indexes = {} THEN {Undefined} ELSE {})

\* --------------------------------------------------------- specifications
Next ==
  \/ \E c \in StoreCalls : StoreResponseEmbedding(c.text, c.metadata)
  \/ SreEmbeddingRejected
  \/ \E e \in EmbeddingsReturned : SreEmbeddingResolved(e)
  \/ SreUpsertResolved
  \/ SreUpsertRejected
  \/ \E c \in FindCalls : FindSimilarResponses(c.queryText, c.limit, c.filter)
  \/ FsrEmbeddingRejected
  \/ \E e \in EmbeddingsReturned : FsrEmbeddingResolved(e)
  \/ (pc = "fsr_query" /\ \E m \in FsrQueryResponses : FsrQueryResolved(m))
  \/ FsrQueryRejected
  \/ \E i, j \in PointIds : GetSimilarity(i, j)
  \/ GsFetchResolved(Fetch(store, {args.pointId1, args.pointId2}))
  \/ GsFetchRejected
  \/ \E f \in FormIds : GenerateFormConnections(f)
  \/ (pc = "gfc_query" /\ \E m \in GfcQueryResponses : GfcQueryResolved(m))
  \/ GfcQueryRejected
  \/ \E key \in BOOLEAN : SetApiKey(key)

\* the operations called one after another on a store that starts empty
Spec == Init /\ [][Next]_vars

\* ------------------------------------------ the records of namespace "ns1"
Str(c, d) == <<c, d>>

FormMetadata(form, response, respondent) ==
  [k \in {"form_id", "response_id", "respondent_name"} |->
     IF k = "form_id" THEN form
     ELSE IF k = "response_id" THEN response ELSE respondent]

FormVector(x, y) == Some(Vector(EXPECTED_EMBEDDING_DIMENSION, <<x, y>>))

\* form responses as the store returns them with metadata and values asked
\* for; two of them come back without metadata or without values
FormPoints ==
  { [id |-> Str("p","1"), values |-> FormVector(1, 0),
     metadata |-> Some(FormMetadata("f1", "r1", "Ann"))],
    [id |-> Str("p","2"), values |-> FormVector(1, 1),
     metadata |-> Some(FormMetadata("f1", "r2", "Bob"))],
    [id |-> Str("p","3"), values |-> FormVector(0, 1),
     metadata |-> Some(FormMetadata("f1", "r3", "Cy"))],
    [id |-> Str("p","4"), values |-> FormVector(-1, 2),
     metadata |-> Some(FormMetadata("f1", "r4", "Ann"))],
    [id |-> Str("p","5"), values |-> FormVector(0, 0),
     metadata |-> Some(FormMetadata("f1", "r5", "Dee"))],
    [id |-> Str("p","6"), values |-> FormVector(1, 0),
     metadata |-> Undefined],
    [id |-> Str("p","7"), values |-> Undefined,
     metadata |-> Some(FormMetadata("f1", "r7", "Eve"))] }

\* namespace "ns1" holds a set of form responses written by the form pipeline
InitConnections ==
  /\ apiKey \in BOOLEAN
  /\ pineconeClient = Undefined
  /\ clientsCreated = 0
  /\ indexes = {RESPONSES_INDEX}
  /\ listed = Undefined
  /\ \E S \in SUBSET FormPoints :
        /\ Cardinality(S) <= MaxPoints
        /\ store = [ns \in Namespaces |->
                      IF ns = FormNs
                      THEN [i \in {p.id : p \in S} |-> CHOOSE p \in S : p.id = i]
                      ELSE <<>>]
  /\ InitCall

NextConnections ==
  \/ \E f \in FormIds : GenerateFormConnections(f)
  \/ (pc = "gfc_query" /\ \E m \in GfcQueryResponses : GfcQueryResolved(m))
  \/ GfcQueryRejected

SpecConnections == InitConnections /\ [][NextConnections]_vars

\* ------------------------------ storing while form responses are connected
\* the form responses of namespace "ns1": one of them under the id that
\* storeResponseEmbedding generates for "Jane Doe!"
IsolationPoints ==
  { [id |-> GeneratedId(Str_respondent, Str_JaneDoe), values |-> FormVector(1, 0),
     metadata |-> Some(FormMetadata("f1", "r1", "Ann"))],
    [id |-> Str("p","2"), values |-> FormVector(1, 1),
     metadata |-> Some(FormMetadata("f1", "r2", "Bob"))] }

\* the calls of storeResponseEmbedding: one that generates the id of a form
\* response, one whose metadata has the form_id the query filters on
IsolationCalls ==
  { [text |-> Text("a", 3),
     metadata |-> Metadata(Str_respondent, Str_JaneDoe, NoExtra)],
    [text |-> Text("b", 3),
     metadata |-> Metadata(Str_respondent, Str_aB9, FormIdExtra)] }

InitIsolation ==
  /\ apiKey \in BOOLEAN
  /\ pineconeClient = Undefined
  /\ clientsCreated = 0
  /\ indexes = {RESPONSES_INDEX}
  /\ listed = Undefined
  /\ store = [ns \in Namespaces |->
                IF ns = FormNs
                THEN [i \in {p.id : p \in IsolationPoints} |->
                        CHOOSE p \in IsolationPoints : p.id = i]
                ELSE <<>>]
  /\ InitCall

NextIsolation ==
  \/ \E c \in IsolationCalls : StoreResponseEmbedding(c.text, c.metadata)
  \/ SreEmbeddingRejected
  \/ \E e \in EmbeddingsReturned : SreEmbeddingResolved(e)
  \/ SreUpsertResolved
  \/ SreUpsertRejected
  \/ \E f \in FormIds : GenerateFormConnections(f)
  \/ (pc = "gfc_query" /\ \E m \in GfcQueryResponses : GfcQueryResolved(m))
  \/ GfcQueryRejected

\* storeResponseEmbedding and generateFormConnections called one after
\* another while namespace "ns1" holds form responses
SpecIsolation == InitIsolation /\ [][NextIsolation]_vars

\* ------------------------------------------------ initializeIndex on its own
\* the names of indexes of other applications in the same project
OtherIndexes == {"notes", "other", "test"}

\* the service holds any of the indexes; no client yet
InitIndex ==
  /\ apiKey \in BOOLEAN
  /\ pineconeClient = Undefined
  /\ clientsCreated = 0
  /\ indexes \in SUBSET ({RESPONSES_INDEX} \cup OtherIndexes)
  /\ listed = Undefined
  /\ store = EmptyStore
  /\ InitCall

NextIndex ==
  \/ InitializeIndex
  \/ \E indexList \in IiListResponses : IiListResolved(indexList)
  \/ IiListRejected
  \/ IiCreateResolved
  \/ IiCreateRejected
  \/ \E key \in BOOLEAN : SetApiKey(key)

\* initializeIndex called again and again, the key set and unset in between
SpecIndex == InitIndex /\ [][NextIndex]_vars

\* ------------------------------------------- cosineSimilarity on its own
\* a component whose square is beyond the finite floats
Huge == Pow2(MaxExp)

\* the components of the vectors cosineSimilarity is called with
CosineComponents == {-1, 0, 1, 3, Huge}

\* the vectors it is called with: every length up to MaxLen, the empty
\* vector, zero vectors, and vectors whose sums overflow
CosineVectors ==
  UNION { { Vector(n, h) : h \in [1..n -> CosineComponents] } : n \in 0..MaxLen }

\* cosineSimilarity(a, b), called by a user of the module
CosineSimilarity(a, b) ==
  /\ pc \in {"idle", "done"}
  /\ op' = "cosineSimilarity"
  /\ args' = [NoArgs EXCEPT !.a = a, !.b = b]
  /\ calls' = NoCalls
  /\ storeBefore' = store
  /\ storeReply' = "none"
  /\ IF CosineThrows(a, b)
     THEN Throw("invalidarg") /\ retSimilarity' = 0
     ELSE Return /\ retSimilarity' = CosineValue(a, b)
  /\ embedding' = Undefined
  /\ recordToUpsert' = Undefined
  /\ fetchResult' = <<>>
  /\ points' = <<>>
  /\ retMatches' = <<>>
  /\ retConnections' = <<>>
  /\ UNCHANGED <<clientVars, indexVars, store>>

\* the two vectors of the call are drawn; nothing has been called yet
InitCosine ==
  /\ apiKey = TRUE
  /\ pineconeClient = Undefined
  /\ clientsCreated = 0
  /\ indexes = {RESPONSES_INDEX}
  /\ listed = Undefined
  /\ store = EmptyStore
  /\ pc = "idle"
  /\ op = "none"
  /\ \E a, b \in CosineVectors : args = [NoArgs EXCEPT !.a = a, !.b = b]
  /\ embedding = Undefined
  /\ recordToUpsert = Undefined
  /\ fetchResult = <<>>
  /\ points = <<>>
  /\ calls = NoCalls
  /\ storeBefore = store
  /\ storeReply = "none"
  /\ outcome = "returned"
  /\ error = "none"
  /\ retMatches = <<>>
  /\ retSimilarity = 0
  /\ retConnections = <<>>

NextCosine == CosineSimilarity(args.a, args.b)

\* cosineSimilarity applied to the pair of vectors drawn
SpecCosine == InitCosine /\ [][NextCosine]_vars
\* ------------------------------------- claims: generateFormConnections
\* generateFormConnections has come to its end after its query resolved
GfcFinished ==
  op = "generateFormConnections" /\ pc = "done" /\ storeReply = "resolved"

\* the point has metadata and a vector
PointComplete(p) == IsDefined(p.metadata) /\ IsDefined(p.values)

\* C1: for N points returned by the query, all with metadata and a vector,
\* generateFormConnections returns exactly N*(N-1)/2 connections; and the
\* sequence it returns is sorted non-increasing by similarityScore.
C1_CountAndOrder ==
  GfcFinished =>
    /\ outcome = "returned"
    /\ (\A i \in DOMAIN points : PointComplete(points[i]))
         => 2 * Len(retConnections) = Len(points) * (Len(points) - 1)
    /\ \A k \in 1..(Len(retConnections) - 1) :
         retConnections[k].similarityScore >= retConnections[k + 1].similarityScore

\* four complete points came back, six connections were returned, their
\* scores differ and sorting changed the order the loops produced
C1_Witness ==
  /\ GfcFinished
  /\ Len(points) = 4
  /\ \A i \in DOMAIN points : PointComplete(points[i])
  /\ Len(retConnections) = 6
  /\ retConnections[1].similarityScore > retConnections[6].similarityScore
  /\ retConnections # ConnectionsFrom(points, 1, 2)

\* the connection the pair of positions i < j stands for
ExpectedConnection(i, j) ==
  [response1Id     |-> ValueOf(points[i].metadata)["response_id"],
   response2Id     |-> ValueOf(points[j].metadata)["response_id"],
   response1Name   |-> ValueOf(points[i].metadata)["respondent_name"],
   response2Name   |-> ValueOf(points[j].metadata)["respondent_name"],
   similarityScore |-> cosineSimilarity(ValueOf(points[i].values),
                                        ValueOf(points[j].values)).value]

\* the pairs of positions i < j of two complete points
ExpectedPairs ==
  { q \in (DOMAIN points) \X (DOMAIN points) :
      q[1] < q[2] /\ PointComplete(points[q[1]]) /\ PointComplete(points[q[2]]) }

\* the response ids of the points that lack a vector
IncompleteResponseIds ==
  { ValueOf(points[i].metadata)["response_id"] :
      i \in { n \in DOMAIN points : IsDefined(points[n].metadata)
                                     /\ ~IsDefined(points[n].values) } }

\* C2: pairs with a point that lacks metadata or a vector are skipped and
\* the operation still succeeds: every pair i < j of complete points gives
\* exactly one connection, with point i as response1 and point j as
\* response2, no connection mentions an incomplete point, and M complete
\* points give M*(M-1)/2 connections.
C2_IncompletePairsSkipped ==
  GfcFinished =>
    LET M == Cardinality({ i \in DOMAIN points : PointComplete(points[i]) })
    IN  \A expected \in { [q \in ExpectedPairs |-> ExpectedConnection(q[1], q[2])] } :
        /\ outcome = "returned"
        /\ 2 * Len(retConnections) = M * (M - 1)
        /\ \A q \in ExpectedPairs :
             Cardinality({ k \in DOMAIN retConnections :
                             retConnections[k] = expected[q] }) = 1
        /\ \A k \in DOMAIN retConnections :
             /\ \E q \in ExpectedPairs : retConnections[k] = expected[q]
             /\ retConnections[k].response1Id \notin IncompleteResponseIds
             /\ retConnections[k].response2Id \notin IncompleteResponseIds

\* four points came back, the second without metadata and another without a
\* vector, and the one pair of complete points gave the one connection
C2_Witness ==
  /\ GfcFinished
  /\ Len(points) = 4
  /\ ~IsDefined(points[2].metadata)
  /\ \E i \in DOMAIN points : ~IsDefined(points[i].values)
  /\ PointComplete(points[1])
  /\ Len(retConnections) = 1
  /\ outcome = "returned"

\* C3: when the query of generateFormConnections fails, the operation fails
\* with the store's error: no list is returned, no similarity is computed,
\* and the query was called exactly once.
C3_QueryFailurePropagates ==
  (op = "generateFormConnections" /\ storeReply = "rejected") =>
    /\ pc = "done"
    /\ outcome = "threw"
    /\ error = "store"
    /\ retConnections = <<>>
    /\ calls.query = 1
    /\ calls.cosineSimilarity = 0

\* the query failed on a namespace that holds complete points
C3_Witness ==
  /\ op = "generateFormConnections"
  /\ storeReply = "rejected"
  /\ outcome = "threw"
  /\ Cardinality({ i \in DOMAIN store[FormNs] : PointComplete(store[FormNs][i]) }) >= 2
\* ------------------------------- claims: embedding and empty-text checks
\* the operation called last embeds its text
Embeds == op \in {"storeResponseEmbedding", "findSimilarResponses"}

\* C4: when createEmbedding resolves to a vector whose length is not 1536,
\* storeResponseEmbedding and findSimilarResponses end with an error without
\* having called upsert or query, and the store is as it was.
C4_DimensionMismatchFailsFirst ==
  (Embeds /\ IsDefined(embedding)
     /\ ValueOf(embedding).length # EXPECTED_EMBEDDING_DIMENSION) =>
    /\ pc = "done"
    /\ outcome = "threw"
    /\ error = "dimension"
    /\ calls.upsert = 0 /\ calls.query = 0 /\ calls.fetch = 0
    /\ storeReply = "none"
    /\ store = storeBefore

\* storeResponseEmbedding got a 512-long vector while the store held a record
C4_Witness ==
  /\ op = "storeResponseEmbedding"
  /\ IsDefined(embedding)
  /\ ValueOf(embedding).length = 512
  /\ outcome = "threw"
  /\ DOMAIN store[DefaultNs] # {}

\* the text is empty or holds nothing but white space
OnlyWhiteSpace(t) == \A k \in DOMAIN t : t[k].ch \in WhiteSpace

\* C5: an empty or white-space-only text is a no-op: storeResponseEmbedding
\* returns normally and findSimilarResponses returns an empty list, neither
\* having called createEmbedding or the store.
C5_EmptyTextIsNoOp ==
  /\ (op = "storeResponseEmbedding" /\ OnlyWhiteSpace(args.text)) =>
       /\ pc = "done" /\ outcome = "returned"
       /\ calls = NoCalls
       /\ store = storeBefore
  /\ (op = "findSimilarResponses" /\ OnlyWhiteSpace(args.queryText)) =>
       /\ pc = "done" /\ outcome = "returned"
       /\ retMatches = <<>>
       /\ calls = NoCalls
       /\ store = storeBefore

\* storeResponseEmbedding was called with white space only and returned,
\* on a store that holds a record
C5_Witness ==
  /\ op = "storeResponseEmbedding"
  /\ TextLength(args.text) > 0
  /\ OnlyWhiteSpace(args.text)
  /\ outcome = "returned"
  /\ DOMAIN store[DefaultNs] # {}

\* ------------------------------------------------- claims: getSimilarity
\* C6: once fetch has resolved, getSimilarity fails with the not-found error
\* without calling cosineSimilarity when the result lacks the vector of id1
\* or of id2, and otherwise returns cosineSimilarity of the two vectors.
C6_MissingVectorIsNotFound ==
  (op = "getSimilarity" /\ storeReply = "resolved") =>
    IF args.pointId1 \in DOMAIN fetchResult /\ args.pointId2 \in DOMAIN fetchResult
    THEN /\ outcome = "returned"
         /\ calls.cosineSimilarity = 1
         /\ retSimilarity =
              cosineSimilarity(ValueOf(fetchResult[args.pointId1].values),
                               ValueOf(fetchResult[args.pointId2].values)).value
    ELSE /\ outcome = "threw"
         /\ error = "notfound"
         /\ calls.cosineSimilarity = 0

\* the first id was fetched and the second was not
C6_Witness ==
  /\ op = "getSimilarity"
  /\ storeReply = "resolved"
  /\ args.pointId1 \in DOMAIN fetchResult
  /\ args.pointId2 \notin DOMAIN fetchResult
  /\ error = "notfound"
\* ------------------------------------------- claims: the upserted record
\* storeResponseEmbedding has built the record it upserts
RecordBuilt == op = "storeResponseEmbedding" /\ IsDefined(recordToUpsert)

Alphanumeric == UpperCase \cup LowerCase \cup Digits

\* s with each maximal run of white space replaced by one hyphen
Hyphenated(s) ==
  LET marked == [i \in DOMAIN s |->
                   IF s[i] \notin WhiteSpace THEN s[i]
                   ELSE IF i < Len(s) /\ s[i + 1] \in WhiteSpace THEN "drop" ELSE "-"]
  IN  SelectSeq(marked, LAMBDA c : c # "drop")

\* s with its upper-case letters turned into lower case
Lowered(s) == [i \in DOMAIN s |-> IF s[i] \in UpperCase THEN LowerOf[s[i]] ELSE s[i]]

\* the sanitized form of s when the characters of Keep are the ones not
\* stripped: stripped, white space to a hyphen, lower-cased
SanitizedKeeping(s, Keep) == Lowered(Hyphenated(SelectSeq(s, LAMBDA c : c \in Keep)))

\* C7 as stated: the id is "{type}-{sanitized_name}" with every character
\* of the name that is not alphanumeric stripped, white space turned into
\* hyphens, and the result lower-cased.
C7_AsStated ==
  RecordBuilt =>
    ValueOf(recordToUpsert).id =
      args.metadata["type"] \o <<"-">>
        \o SanitizedKeeping(args.metadata["name"], Alphanumeric \cup WhiteSpace)

\* C7: the id is "{type}-{sanitized_name}", where the sanitized name is the
\* name with every character other than letters, digits, white space and
\* hyphens stripped, each run of white space turned into one hyphen, and
\* the result lower-cased; "Jane Doe!" of type "respondent" gives
\* "respondent-jane-doe".
C7_IdKeepsHyphens ==
  RecordBuilt =>
    /\ ValueOf(recordToUpsert).id =
         args.metadata["type"] \o <<"-">>
           \o SanitizedKeeping(args.metadata["name"],
                               Alphanumeric \cup WhiteSpace \cup {"-"})
    /\ (args.metadata["type"] = Str_respondent /\ args.metadata["name"] = Str_JaneDoe)
         => ValueOf(recordToUpsert).id =
              Str_respondent \o <<"-","j","a","n","e","-","d","o","e">>

\* the record of a name with a hyphen and an underscore: the hyphen stays
C7_Witness ==
  /\ RecordBuilt
  /\ args.metadata["name"] = Str_aB9
  /\ ValueOf(recordToUpsert).id = Str_respondent \o <<"-","a","-","b","9">>

\* C8 as stated: the type part of the id is the type sanitized by the rule
\* of the name.
C8_AsStated ==
  RecordBuilt =>
    ValueOf(recordToUpsert).id =
      SanitizedKeeping(args.metadata["type"], Alphanumeric \cup WhiteSpace \cup {"-"})
        \o <<"-">>
        \o SanitizedKeeping(args.metadata["name"],
                            Alphanumeric \cup WhiteSpace \cup {"-"})

\* C8: the id begins with the type exactly as given, followed by a hyphen:
\* the type is not sanitized.
C8_TypeVerbatim ==
  RecordBuilt =>
    LET id   == ValueOf(recordToUpsert).id
        type == args.metadata["type"]
    IN  /\ Len(id) > Len(type)
        /\ SubSeq(id, 1, Len(type)) = type
        /\ id[Len(type) + 1] = "-"

\* the record of a type with upper case, a space and punctuation
C8_Witness ==
  /\ RecordBuilt
  /\ args.metadata["type"] = <<"Q"," ","A","!">>
  /\ SubSeq(ValueOf(recordToUpsert).id, 1, 5) = <<"Q"," ","A","!","-">>

\* C9: the metadata of the upserted record is the input metadata with
\* originalText set to the first 1000 characters of the text: the other
\* keys keep their values, type and name are the input's, and originalText
\* is at most 1000 characters long.
C9_MetadataPassesThrough ==
  RecordBuilt =>
    LET full == ValueOf(ValueOf(recordToUpsert).metadata)
        n    == TextLength(full["originalText"])
    IN  /\ DOMAIN full = DOMAIN args.metadata \cup {"originalText"}
        /\ \A k \in DOMAIN args.metadata \ {"originalText"} : full[k] = args.metadata[k]
        /\ n <= ORIGINAL_TEXT_LIMIT
        /\ n = Min(TextLength(args.text), ORIGINAL_TEXT_LIMIT)
        /\ \A i \in 1..n : CharAt(full["originalText"], i) = CharAt(args.text, i)

\* the record of a text of 1001 characters with a form_id in its metadata
C9_Witness ==
  /\ RecordBuilt
  /\ TextLength(args.text) > ORIGINAL_TEXT_LIMIT
  /\ "form_id" \in DOMAIN args.metadata
  /\ ValueOf(ValueOf(recordToUpsert).metadata)["form_id"] = "f1"
  /\ TextLength(ValueOf(ValueOf(recordToUpsert).metadata)["originalText"])
       = ORIGINAL_TEXT_LIMIT

\* C10: every record storeResponseEmbedding writes has a non-empty name and
\* a non-empty type: a call with an empty name or type never upserts.
C10_NameAndTypeNonEmpty ==
  /\ \A i \in DOMAIN store[DefaultNs] :
       /\ ValueOf(store[DefaultNs][i].metadata)["name"] # <<>>
       /\ ValueOf(store[DefaultNs][i].metadata)["type"] # <<>>
  /\ (op = "storeResponseEmbedding"
        /\ (args.metadata["name"] = <<>> \/ args.metadata["type"] = <<>>))
       => calls.upsert = 0
\* ------------------------------------------------- claims: upsert by id
\* storeResponseEmbedding has returned after its upsert resolved
SreStored == op = "storeResponseEmbedding" /\ storeReply = "resolved"

\* C11: a successful storeResponseEmbedding leaves the default namespace as
\* it was but for the record of the generated id, which is the record of
\* this call: the store holds one record per id, that of the latest call
\* that generated the id; and a call that builds the record the store
\* already holds under its id (the same text, metadata and embedding run
\* again) leaves the store as it was.
C11_UpsertByIdIsIdempotent ==
  /\ \A i \in DOMAIN store[DefaultNs] : store[DefaultNs][i].id = i
  /\ SreStored =>
       LET rec    == ValueOf(recordToUpsert)
           before == storeBefore[DefaultNs]
           after  == store[DefaultNs]
       IN  /\ outcome = "returned"
           /\ calls.upsert = 1
           /\ rec.id = args.metadata["type"] \o <<"-">>
                         \o SanitizedKeeping(args.metadata["name"],
                                             Alphanumeric \cup WhiteSpace \cup {"-"})
           /\ rec.values = embedding
           /\ DOMAIN after = DOMAIN before \cup {rec.id}
           /\ after[rec.id] = rec
           /\ \A i \in DOMAIN before \ {rec.id} : after[i] = before[i]
           /\ store[FormNs] = storeBefore[FormNs]
           /\ (rec.id \in DOMAIN before /\ before[rec.id] = rec) => store = storeBefore

\* the call was run again with the text, metadata and embedding of the call
\* that wrote the record, next to a record of another id: the store is as
\* it was
C11_Witness ==
  /\ SreStored
  /\ ValueOf(recordToUpsert).id \in DOMAIN storeBefore[DefaultNs]
  /\ storeBefore[DefaultNs][ValueOf(recordToUpsert).id] = ValueOf(recordToUpsert)
  /\ Cardinality(DOMAIN storeBefore[DefaultNs]) = 2
  /\ store = storeBefore

\* a call overwrote the record another call had written under the same id
C11_Overwritten ==
  /\ SreStored
  /\ ValueOf(recordToUpsert).id \in DOMAIN storeBefore[DefaultNs]
  /\ storeBefore[DefaultNs][ValueOf(recordToUpsert).id] # ValueOf(recordToUpsert)
  /\ ValueOf(storeBefore[DefaultNs][ValueOf(recordToUpsert).id].metadata)["name"]
       # args.metadata["name"]
\* ------------------------------------------------ claims: cosineSimilarity
\* cosineSimilarity has been applied to the vectors a and b of the call
CosineCalled == op = "cosineSimilarity" /\ pc = "done"

\* every component of v is 0
IsZeroVector(v) == \A i \in DOMAIN v.head : v.head[i] = 0

\* C12: cosineSimilarity(a, b) throws the invalid-argument error whenever
\* the lengths of a and b differ, and returns a number without throwing
\* whenever they are equal; for two empty vectors it returns 0.
C12_LengthMismatchThrows ==
  CosineCalled =>
    /\ (args.a.length # args.b.length) <=> (outcome = "threw")
    /\ outcome = "threw" => error = "invalidarg"
    /\ (args.a.length = args.b.length) <=> (outcome = "returned")
    /\ (args.a.length = 0 /\ args.b.length = 0) => retSimilarity = 0

\* the call threw for a first vector shorter than the second
C12_Witness ==
  /\ CosineCalled
  /\ args.a.length < args.b.length
  /\ outcome = "threw"
  /\ error = "invalidarg"

\* the call returned for two empty vectors
C12_EmptyVectors ==
  /\ CosineCalled
  /\ args.a.length = 0 /\ args.b.length = 0
  /\ outcome = "returned"

\* C13: cosineSimilarity(zero_vector, v) and cosineSimilarity(v, zero_vector)
\* are 0 for every v of the same length.
C13_ZeroVectorGivesZero ==
  (CosineCalled /\ args.a.length = args.b.length
     /\ (IsZeroVector(args.a) \/ IsZeroVector(args.b))) =>
    /\ outcome = "returned"
    /\ retSimilarity = 0

\* the zero vector against a vector whose squared norm overflows: NaN
C13_ZeroAgainstOverflow ==
  /\ CosineCalled
  /\ args.a = Vector(1, <<0>>)
  /\ args.b = Vector(1, <<Huge>>)
  /\ IsNaN(retSimilarity)

\* C14: cosineSimilarity is symmetric: for a and b of equal length,
\* cosineSimilarity(b, a) returns the value cosineSimilarity(a, b) returned.
C14_Symmetric ==
  (CosineCalled /\ args.a.length = args.b.length) =>
    /\ outcome = "returned"
    /\ ~cosineSimilarity(args.b, args.a).threw
    /\ cosineSimilarity(args.b, args.a).value = retSimilarity

\* the call returned a negative value for two vectors of different norms
C14_Witness ==
  /\ CosineCalled
  /\ outcome = "returned"
  /\ args.a = Vector(2, <<-1, 3>>)
  /\ args.b = Vector(2, <<1, 0>>)
  /\ retSimilarity < 0
  /\ IsFinite(retSimilarity)

\* C15: cosineSimilarity(v, v) is 1 for every nonzero vector v.
C15_SelfSimilarityIsOne ==
  (CosineCalled /\ args.a = args.b /\ ~IsZeroVector(args.a)) =>
    /\ outcome = "returned"
    /\ retSimilarity = One

\* a vector of squared norm 10 against itself: a float next to 1
C15_RoundedOffOne ==
  /\ CosineCalled
  /\ args.a = Vector(2, <<1, 3>>)
  /\ args.b = Vector(2, <<1, 3>>)
  /\ IsFinite(retSimilarity)
  /\ retSimilarity # One
  /\ Abs(retSimilarity - One) <= Pow2(Coarse)

\* a vector whose squared norm overflows against itself: NaN
C15_OverflowGivesNaN ==
  /\ CosineCalled
  /\ args.a = Vector(1, <<Huge>>)
  /\ args.b = Vector(1, <<Huge>>)
  /\ IsNaN(retSimilarity)
\* ------------------------------------------------ claims: the client handle
\* the step begins an operation
CallBegins == pc \in {"idle", "done"} /\ apiKey' = apiKey /\ vars' # vars

\* the operation begun is one that asks for the client: every operation does
\* but storeResponseEmbedding and findSimilarResponses of a blank text
AsksForClient ==
  /\ ~(op' = "storeResponseEmbedding" /\ OnlyWhiteSpace(args'.text))
  /\ ~(op' = "findSimilarResponses" /\ OnlyWhiteSpace(args'.queryText))

\* what C16 says of one step
C16_Step ==
  /\ clientsCreated' <= 1
  /\ IsDefined(pineconeClient) =>
       pineconeClient' = pineconeClient /\ clientsCreated' = clientsCreated
  /\ ~IsDefined(pineconeClient) =>
       \/ ~IsDefined(pineconeClient') /\ clientsCreated' = clientsCreated
       \/ pineconeClient' = Some(1) /\ clientsCreated' = 1 /\ clientsCreated = 0
  /\ ~CallBegins => pineconeClient' = pineconeClient
  /\ (CallBegins /\ ~AsksForClient) => pineconeClient' = pineconeClient
  /\ (CallBegins /\ AsksForClient) =>
       IF IsDefined(pineconeClient) THEN error' # "config"
       ELSE IF apiKey THEN IsDefined(pineconeClient') /\ error' # "config"
       ELSE /\ pc' = "done" /\ outcome' = "threw" /\ error' = "config"
            /\ ~IsDefined(pineconeClient')
            /\ calls' = NoCalls
            /\ store' = store

\* C16: the client is constructed at most once, when the first operation
\* that asks for it finds the API key set; once constructed the handle is
\* never replaced and every later operation goes on with it; an operation
\* that asks for the client while none is cached and the key is absent
\* throws the configuration error, calls nothing and leaves the handle
\* unset, so that a later operation constructs it once the key is there.
C16_LazyClientOnce == [][C16_Step]_vars

\* an operation stored a record through the handle an earlier operation had
\* stored one through, the key having been unset since the construction
C16_Witness ==
  /\ SreStored
  /\ DOMAIN storeBefore[DefaultNs] # {}
  /\ pineconeClient = Some(1)
  /\ clientsCreated = 1
  /\ ~apiKey

\* an operation threw the configuration error, the handle is unset and the
\* key has been set since
C16_KeyAbsent ==
  /\ error = "config"
  /\ outcome = "threw"
  /\ ~IsDefined(pineconeClient)
  /\ clientsCreated = 0
  /\ apiKey
\* ------------------------------------------------- claims: initializeIndex
\* what C17 says of the state a step leads to
C17_State ==
  op = "initializeIndex" =>
    /\ calls.listIndexes <= 1 /\ calls.createIndex <= 1
    /\ calls.createIndex = 1 =>
         /\ calls.listIndexes = 1
         /\ IsDefined(listed)
         /\ ~(IsDefined(ValueOf(listed)) /\ RESPONSES_INDEX \in ValueOf(ValueOf(listed)))
    /\ (IsDefined(listed) /\ IsDefined(ValueOf(listed))
          /\ RESPONSES_INDEX \in ValueOf(ValueOf(listed))) =>
         /\ calls.createIndex = 0
         /\ pc = "done" /\ outcome = "returned"
    /\ storeReply = "rejected" =>
         /\ pc = "done" /\ outcome = "threw" /\ error = "store"
    /\ (pc = "done" /\ outcome = "returned") => RESPONSES_INDEX \in indexes

\* what C17 says of a step: the indexes change only as createIndex, called
\* while "responses" was not held, resolves; once held the index stays
C17_Step ==
  /\ C17_State'
  /\ indexes' # indexes =>
       /\ pc = "ii_createIndex"
       /\ calls.createIndex = 1
       /\ RESPONSES_INDEX \notin indexes
       /\ indexes' = indexes \cup {RESPONSES_INDEX}

\* C17: initializeIndex lists the indexes first and calls createIndex, once,
\* only if no index listed is named "responses"; when the index is listed it
\* returns without a createIndex call, so that calls made one after another
\* create the index at most once; and when listIndexes or createIndex
\* rejects, initializeIndex throws the error it was given.
C17_CheckThenCreate == [][C17_Step]_vars

\* the index was not listed, among others that were, and this call created it
C17_Witness ==
  /\ op = "initializeIndex"
  /\ pc = "done" /\ outcome = "returned"
  /\ calls.listIndexes = 1 /\ calls.createIndex = 1
  /\ listed = Some(Some(OtherIndexes))
  /\ indexes = OtherIndexes \cup {RESPONSES_INDEX}

\* the index was listed and the call returned without a createIndex call
C17_AlreadyListed ==
  /\ op = "initializeIndex"
  /\ pc = "done" /\ outcome = "returned"
  /\ calls.createIndex = 0
  /\ listed = Some(Some({RESPONSES_INDEX}))

\* createIndex rejected and initializeIndex threw
C17_CreateRejected ==
  /\ op = "initializeIndex"
  /\ calls.createIndex = 1
  /\ storeReply = "rejected"
  /\ outcome = "threw"
\* --------------------------------------------- claims: namespace isolation
\* the records a namespace of the store holds
RecordsOf(ns) == { store[ns][i] : i \in DOMAIN store[ns] }

\* the record is one storeResponseEmbedding builds: its metadata has the
\* originalText the operation adds
BuiltByStore(rec) ==
  IsDefined(rec.metadata) /\ "originalText" \in DOMAIN ValueOf(rec.metadata)

\* C18: storeResponseEmbedding writes to the default namespace only and
\* generateFormConnections reads namespace "ns1" only: after any calls of
\* storeResponseEmbedding, namespace "ns1" holds the form responses it held
\* and no record storeResponseEmbedding built, every point
\* generateFormConnections pairs up is a record of "ns1", none is a record
\* storeResponseEmbedding built, and the connections name form responses only.
C18_NamespacesIsolated ==
  /\ RecordsOf(FormNs) = IsolationPoints
  /\ \A rec \in RecordsOf(DefaultNs) : BuiltByStore(rec)
  /\ op = "generateFormConnections" =>
       /\ \A k \in DOMAIN points :
            /\ points[k] \in RecordsOf(FormNs)
            /\ ~BuiltByStore(points[k])
       /\ \A k \in DOMAIN retConnections :
            /\ retConnections[k].response1Id \in {"r1", "r2"}
            /\ retConnections[k].response2Id \in {"r1", "r2"}

\* the default namespace holds two records storeResponseEmbedding wrote, one
\* under the id of a form response and one with the form_id asked for, and
\* generateFormConnections paired up the two form responses only
C18_Witness ==
  /\ GfcFinished
  /\ args.formId = "f1"
  /\ Cardinality(DOMAIN store[DefaultNs]) = 2
  /\ GeneratedId(Str_respondent, Str_JaneDoe) \in DOMAIN store[DefaultNs]
  /\ \E i \in DOMAIN store[DefaultNs] :
       "form_id" \in DOMAIN ValueOf(store[DefaultNs][i].metadata)
  /\ Len(points) = 2
  /\ Len(retConnections) = 1
====
